---- MODULE Spec2Model ----
(***************************************************************************)
(* Payment completion and settlement reconciliation of meetro-serverless.  *)
(*                                                                         *)
(* The donation collection, the chip-in handler, the two completion entry  *)
(* points (paystackWebhook, verifyPayment) and the settlement              *)
(* reconciliation job, each await of a handler being one step, so that the *)
(* handlers interleave on the donation collection as they do on the store, *)
(* and the one-time tokens of the user accounts.                           *)
(***************************************************************************)
EXTENDS Integers, Sequences, FiniteSets, TLC

(***************************************************************************)
(* Input domains.                                                          *)
(***************************************************************************)
\* payment references chip-in can mint (CHIP-IN_<time>_<random>)
Refs == {"CHIP-IN_1", "CHIP-IN_2"}

\* donation amounts in NGN that requests carry
Amounts == {5000}

\* gateway_response strings of a verified transaction
GatewayResponses == {"Successful", "Approved"}

\* metadata.type values the gateway returns
PaymentTypes == {"chipin", "ticket", "raffle"}


\* absent values
NoDonation == [absent |-> "donation"]
NoMetadata == [absent |-> "metadata"]
NoDate == -1
NoReference == "NoReference"

(***************************************************************************)
(* Fee calculator.                                                         *)
(***************************************************************************)
\* feePercentage = 0.01 as the fraction 1 / FeePercentDivisor
FeePercentDivisor == 100
fixedFee == 100

\* the fee without its fixed part
calculateFeePercentOnly(amount) == amount \div FeePercentDivisor

\* amount * feePercentage + fixedFee (exact on the multiples of 100 in Amounts)
calculateFee(amount) == (amount \div FeePercentDivisor) + fixedFee

\* NGN to kobo
KoboPerNaira == 100

\* the amount sent to and expected from the gateway: (amount + fee) * 100
chargedAmount(originalAmount, transaction_fee) ==
    (originalAmount + transaction_fee) * KoboPerNaira

\* by how many kobo a paid amount falls short of the charged one (0: paid in full)
Shortfalls == {0, 1000}

(***************************************************************************)
(* External gateway: what GET /transaction/verify/:reference can answer.   *)
(***************************************************************************)
GatewayMetadata(type, originalAmount) ==
    [type |-> type, originalAmount |-> originalAmount,
     transaction_fee |-> calculateFee(originalAmount)]

GatewayReply(status, type, originalAmount, shortfall, gateway_response) ==
    [status |-> status,
     amount |-> chargedAmount(originalAmount, calculateFee(originalAmount))
                - shortfall,
     gateway_response |-> gateway_response,
     metadata |-> GatewayMetadata(type, originalAmount)]

\* the replies of the gateway the handlers are run against
VerifyReplies ==
    {GatewayReply("success", "chipin", a, 0, g) :
        a \in Amounts, g \in GatewayResponses}
    \cup {GatewayReply("success", "chipin", a, d, "Successful") :
            a \in Amounts, d \in Shortfalls}
    \cup {GatewayReply("success", t, a, 0, "Successful") :
            t \in PaymentTypes \ {"chipin"}, a \in Amounts}
    \cup {GatewayReply("failed", "chipin", a, 0, "Declined") : a \in Amounts}

\* the call throws (timeout, connection error, non-2xx answer)
NoReply == [absent |-> "reply"]

(***************************************************************************)
(* Webhook authentication.                                                 *)
(***************************************************************************)
PAYSTACK_SECRET_KEY == "sk_server"
OtherKey == "sk_other"

WebhookEvents == {"charge.success", "transfer.success"}
Payloads == [event : WebhookEvents, data : [reference : Refs]]

\* a request body is the bytes of one serialization of its payload
BodyForms == {"compact", "spaced"}
Bodies == [form : BodyForms, payload : Payloads]

\* express.json(): the parsed req.body of the received bytes
ParseBody(rawBody) == rawBody.payload

\* JSON.stringify(payload): the compact serialization
JSONstringify(payload) == [form |-> "compact", payload |-> payload]

\* crypto.createHmac("sha512", key).update(bytes).digest("hex"), collision free
Hmac(key, bytes) == [key |-> key, bytes |-> bytes]

\* the x-paystack-signature headers a request can carry: the gateway signs
\* the bytes it sends with the shared secret, anybody else signs without it
Signatures(rawBody) ==
    {Hmac(PAYSTACK_SECRET_KEY, rawBody), Hmac(OtherKey, rawBody)}

(***************************************************************************)
(* State.                                                                  *)
(***************************************************************************)
VARIABLES
    donations,   \* the Donation collection, by paymentReference (unique index)
    webhook,     \* the paystackWebhook request in progress or last answered
    verify,      \* the verifyPayment request in progress or last answered
    job,         \* the reconciliation run in progress or last ended
    lastRunAt,   \* Job "paystack_settlement_reconcile": its lastRunAt
    now,         \* the clock, in days
    gateway,     \* the settlements the payment gateway holds, by settlement id
    chipin,      \* the chipin request last answered, where it is recorded
    userToken,   \* the UserToken document of one user and type
    verifyToken  \* the UserToken.verifyToken calls, by caller

\* the variables of the token store
tokens == <<userToken, verifyToken>>

\* Donation.create({event, userId, amount, paymentReference}) with the schema
\* defaults and the fee of the pre-save hook
NewDonation(amount) ==
    [amount |-> amount,
     fee |-> calculateFee(amount),
     status |-> "pending",
     payoutStatus |-> "pending",
     metadata |-> NoMetadata,
     isPayoutEligible |-> FALSE,
     settledAt |-> NoDate]

\* Donation.findOne({paymentReference: reference})
findOne(reference) == donations[reference]

\* a handler with no request yet
IdleHandler ==
    [pc |-> "idle", reference |-> NoReference, verifiedData |-> NoReply,
     status |-> 0, called |-> FALSE, wrote |-> FALSE, threw |-> FALSE,
     statusAtStart |-> "none"]

\* a handler that has just accepted a request for `reference`; statusAtStart
\* records the status the donation had at that moment ("none": no donation)
Accepted(reference) ==
    [IdleHandler EXCEPT !.pc = "verifyTransaction", !.reference = reference,
        !.statusAtStart =
            IF findOne(reference) = NoDonation THEN "none"
            ELSE findOne(reference).status]

\* res.sendStatus(code) / next(new AppError(message, code))
Respond(h, code) == [h EXCEPT !.pc = "done", !.status = code]

\* a catch block that answers like a failed validation
CaughtAsRejected(h) == [Respond(h, 400) EXCEPT !.threw = TRUE]

\* the catch block of a handler: an awaited call threw, the answer is 500
Caught(h) == [Respond(h, 500) EXCEPT !.threw = TRUE]

(***************************************************************************)
(* chipin: POST /chip-in.                                                  *)
(***************************************************************************)
NoEvent == [absent |-> "event"]
NoChipInDetails == [absent |-> "chipInDetails"]

\* the events a chip-in can name: unknown, public, private without and with
\* chip-in details (of type donation with a minimum, or fixed)
ChipInEvents ==
    {NoEvent,
     [isPrivate |-> FALSE, chipInDetails |-> NoChipInDetails],
     [isPrivate |-> TRUE, chipInDetails |-> NoChipInDetails]}
    \cup {[isPrivate |-> TRUE,
           chipInDetails |-> [chipInType |-> t, minAmount |-> m, fixedAmount |-> m]] :
            t \in {"donation", "fixed"}, m \in {5000, 10000}}

\* amounts a chip-in request can carry
ChipInAmounts == Amounts \cup {0}

\* the pre-save hook's check of the amount against the event's chip-in details
PreSaveAccepts(event, amount) ==
    /\ ~(event.chipInDetails.chipInType = "donation"
         /\ amount < event.chipInDetails.minAmount)
    /\ ~(event.chipInDetails.chipInType = "fixed"
         /\ amount # event.chipInDetails.fixedAmount)

\* the checks of chip-in without the one on the event's privacy
ChipinRejectsPrivacyUnchecked(event, amount) ==
    IF event = NoEvent THEN 404
    ELSE IF event.chipInDetails = NoChipInDetails THEN 400
    ELSE IF amount <= 0 THEN 400
    ELSE IF ~PreSaveAccepts(event, amount) THEN 400
    ELSE 0

\* the status chip-in answers before it creates anything, 0 when it goes on
ChipinRejects(event, amount) ==
    IF event = NoEvent THEN 404
    ELSE IF ~event.isPrivate \/ event.chipInDetails = NoChipInDetails THEN 400
    ELSE IF amount <= 0 THEN 400
    ELSE IF ~PreSaveAccepts(event, amount) THEN 400
    ELSE 0

\* the checks of chip-in, then await Donation.create under a fresh reference
ChipinCreates(event, amount, reference) ==
    /\ donations[reference] = NoDonation
    /\ IF ChipinRejects(event, amount) # 0
       THEN UNCHANGED donations
       ELSE donations' = [donations EXCEPT ![reference] = NewDonation(amount)]

\* a whole chip-in request: the checks, then Donation.create under a fresh
\* reference; the POST /transaction/initialize that follows decides only the
\* answer (201 or 500), the donation stays created either way; the request
\* and its answer are not recorded
Chipin(event, amount, reference) ==
    /\ ChipinCreates(event, amount, reference)
    /\ UNCHANGED <<webhook, verify, job, lastRunAt, now, gateway, chipin, tokens>>

\* no chip-in request answered yet
IdleChipin ==
    [pc |-> "idle", event |-> NoEvent, amount |-> 0, reference |-> NoReference,
     initialize |-> NoReply, status |-> 0]

\* what POST /transaction/initialize can do: answer with status true, answer
\* with another status, throw
InitializeAnswers == {"initialized", "refused", "throws"}

\* the body of POST /transaction/initialize that names the donation alone
InitializeRequestAmountOnly(amount, donation, reference) ==
    [amount |-> amount * KoboPerNaira,
     reference |-> reference,
     metadata |-> [type |-> "chipin", originalAmount |-> amount,
                   transaction_fee |-> donation.fee]]

\* the body of POST /transaction/initialize: the amount in kobo, the
\* reference and the metadata (without its eventId)
InitializeRequest(amount, donation, reference) ==
    [amount |-> (amount + donation.fee) * KoboPerNaira,
     reference |-> reference,
     metadata |-> [type |-> "chipin", originalAmount |-> amount,
                   transaction_fee |-> donation.fee]]

\* a whole chip-in request with its record: the request, the body sent to the
\* gateway once the donation is created, and the status of the answer
ChipinRequest(event, amount, reference, answer) ==
    /\ ChipinCreates(event, amount, reference)
    /\ LET req == [IdleChipin EXCEPT !.pc = "done", !.event = event,
                                     !.amount = amount, !.reference = reference]
       IN chipin' =
            IF ChipinRejects(event, amount) # 0
            THEN [req EXCEPT !.status = ChipinRejects(event, amount)]
            ELSE [req EXCEPT
                    !.initialize = InitializeRequest(amount, NewDonation(amount),
                                                     reference),
                    !.status = IF answer = "initialized" THEN 201 ELSE 500]
    /\ UNCHANGED <<webhook, verify, job, lastRunAt, now, gateway, tokens>>

(***************************************************************************)
(* The completion write shared by the two entry points.                    *)
(***************************************************************************)
\* the handlers without their idempotency check
AlreadyProcessedNever(existingDonation) == FALSE

\* if (existingDonation && existingDonation.status === "completed")
AlreadyProcessed(existingDonation) ==
    existingDonation # NoDonation /\ existingDonation.status = "completed"

\* the completion filter with a status guard, its miss not told from an
\* unknown reference by the callers
CompletionFilterNotCompleted(donation) ==
    donation # NoDonation /\ donation.status # "completed"

\* the filter of findOneAndUpdate: {paymentReference: reference}
CompletionFilter(donation) == donation # NoDonation

\* the completion update without the metadata
CompletionUpdateStatusOnly(donation, reference, gateway_response) ==
    [donation EXCEPT !.status = "completed"]

\* the completion update that records the charged amount as the amount
CompletionUpdateChargedAmount(donation, reference, gateway_response) ==
    [donation EXCEPT
        !.status = "completed",
        !.amount = donation.amount + donation.fee,
        !.metadata = [transactionId |-> reference,
                      gateway |-> "paystack",
                      gatewayResponse |-> gateway_response]]

\* the completion as a replacement of the document: the fields it does not
\* name fall back to what they were at creation
CompletionUpdateOverwrite(donation, reference, gateway_response) ==
    [NewDonation(donation.amount) EXCEPT
        !.status = "completed",
        !.metadata = [transactionId |-> reference,
                      gateway |-> "paystack",
                      gatewayResponse |-> gateway_response]]

\* the update of findOneAndUpdate
CompletionUpdate(donation, reference, gateway_response) ==
    [donation EXCEPT
        !.status = "completed",
        !.metadata = [transactionId |-> reference,
                      gateway |-> "paystack",
                      gatewayResponse |-> gateway_response]]

\* Donation.findOneAndUpdate(filter, update, {new: true}): the document it
\* returns, null when the filter matches none
findOneAndUpdate(reference, gateway_response) ==
    IF CompletionFilter(donations[reference])
    THEN CompletionUpdate(donations[reference], reference, gateway_response)
    ELSE NoDonation

\* the collection after a findOneAndUpdate that returned `donation`
Updated(reference, donation) ==
    IF donation = NoDonation THEN donations
    ELSE [donations EXCEPT ![reference] = donation]

(***************************************************************************)
(* The checks of the verified transaction shared by the two entry points.  *)
(***************************************************************************)
\* the status check reading the envelope's response.data.status, which is
\* true whenever the gateway answered
ResponseStatusOk(paymentData) == TRUE

\* verifiedData.status === "success"
PaymentSuccessful(paymentData) == paymentData.status = "success"

\* the switch without its default branch
InvalidPaymentTypeNever(paymentType) == FALSE

\* the default branch of switch (paymentType)
InvalidPaymentType(paymentType) == paymentType \notin {"chipin", "ticket"}

(***************************************************************************)
(* paystackWebhook: POST /webhook/paystack.                                *)
(***************************************************************************)
\* redelivery: the request repeats the one just answered with 500
IdleWebhook ==
    [rawBody |-> [absent |-> "body"], signature |-> [absent |-> "signature"],
     redelivery |-> FALSE]
    @@ IdleHandler

\* the hash the handler computes: over the re-serialized parsed body
WebhookHash(payload) == Hmac(PAYSTACK_SECRET_KEY, JSONstringify(payload))

\* the webhook check without the signature comparison
WebhookRejectsEventOnly(payload, signature) ==
    payload.event # "charge.success"

\* the webhook check without the event comparison
WebhookRejectsSignatureOnly(payload, signature) ==
    WebhookHash(payload) # signature

\* if (hash !== signature || payload.event !== "charge.success")
WebhookRejects(payload, signature) ==
    WebhookHash(payload) # signature \/ payload.event # "charge.success"

PaystackWebhookReceive(rawBody, signature) ==
    /\ webhook.pc \in {"idle", "done"}
    /\ LET payload == ParseBody(rawBody)
           req == [rawBody |-> rawBody, signature |-> signature,
                   redelivery |-> /\ webhook.pc = "done"
                                  /\ webhook.status = 500
                                  /\ webhook.rawBody = rawBody
                                  /\ webhook.signature = signature]
       IN webhook' = IF WebhookRejects(payload, signature)
                     THEN Respond(req @@ IdleHandler, 400)
                     ELSE req @@ Accepted(payload.data.reference)
    /\ UNCHANGED <<donations, verify, job, lastRunAt, now, gateway, chipin, tokens>>

\* await paystack.get(`/transaction/verify/${reference}`) and the switch
PaystackWebhookVerifyTransaction(reply) ==
    /\ webhook.pc = "verifyTransaction"
    /\ LET h == [webhook EXCEPT !.called = TRUE, !.verifiedData = reply]
       IN webhook' =
            IF reply = NoReply THEN Caught(h)
            ELSE IF ~PaymentSuccessful(reply) THEN Respond(h, 400)
            ELSE IF reply.metadata.type = "chipin" THEN [h EXCEPT !.pc = "findOne"]
            ELSE IF InvalidPaymentType(reply.metadata.type) THEN Respond(h, 400)
            ELSE Respond(h, 200)
    /\ UNCHANGED <<donations, verify, job, lastRunAt, now, gateway, chipin, tokens>>

\* await Donation.findOne({paymentReference: reference})
PaystackWebhookFindOne ==
    /\ webhook.pc = "findOne"
    /\ webhook' = IF AlreadyProcessed(findOne(webhook.reference))
                  THEN Respond(webhook, 200)
                  ELSE [webhook EXCEPT !.pc = "findOneAndUpdate"]
    /\ UNCHANGED <<donations, verify, job, lastRunAt, now, gateway, chipin, tokens>>

\* await Donation.findOneAndUpdate(...), then res.sendStatus(200)
PaystackWebhookFindOneAndUpdate ==
    /\ webhook.pc = "findOneAndUpdate"
    /\ LET donation == findOneAndUpdate(webhook.reference,
                                        webhook.verifiedData.gateway_response)
       IN /\ donations' = Updated(webhook.reference, donation)
          /\ webhook' = Respond([webhook EXCEPT !.wrote = (donation # NoDonation)],
                                200)
    /\ UNCHANGED <<verify, job, lastRunAt, now, gateway, chipin, tokens>>

\* a store call of the handler throws
PaystackWebhookStoreThrows ==
    /\ webhook.pc \in {"findOne", "findOneAndUpdate"}
    /\ webhook' = Caught(webhook)
    /\ UNCHANGED <<donations, verify, job, lastRunAt, now, gateway, chipin, tokens>>

(***************************************************************************)
(* verifyPayment: GET /verify-payment?reference=...                        *)
(***************************************************************************)
IdleVerify == [data |-> NoDonation] @@ IdleHandler

\* the amount check comparing naira with kobo: never a mismatch it detects
AmountMatchesAlways(paymentData) ==
    paymentData.amount >= paymentData.metadata.originalAmount

\* paymentData.amount === (originalAmount + transaction_fee) * 100
AmountMatches(paymentData) ==
    paymentData.amount =
        chargedAmount(paymentData.metadata.originalAmount,
                      paymentData.metadata.transaction_fee)

\* the handler without its reference check
VerifyPaymentReceiveUnchecked(reference) ==
    /\ verify.pc \in {"idle", "done"}
    /\ verify' = [IdleVerify EXCEPT !.pc = "verifyTransaction",
                                    !.reference = reference]
    /\ UNCHANGED <<donations, webhook, job, lastRunAt, now, gateway, chipin, tokens>>

VerifyPaymentReceive(reference) ==
    /\ verify.pc \in {"idle", "done"}
    /\ verify' = IF reference = NoReference
                 THEN Respond(IdleVerify, 400)
                 ELSE [data |-> NoDonation] @@ Accepted(reference)
    /\ UNCHANGED <<donations, webhook, job, lastRunAt, now, gateway, chipin, tokens>>

\* await paystack.get(`/transaction/verify/${reference}`), the status and
\* amount checks and the switch
VerifyPaymentVerifyTransaction(reply) ==
    /\ verify.pc = "verifyTransaction"
    /\ LET h == [verify EXCEPT !.called = TRUE, !.verifiedData = reply]
       IN verify' =
            IF reply = NoReply THEN Caught(h)
            ELSE IF ~PaymentSuccessful(reply) THEN Respond(h, 400)
            ELSE IF ~AmountMatches(reply) THEN Respond(h, 400)
            ELSE IF reply.metadata.type = "chipin" THEN [h EXCEPT !.pc = "findOne"]
            ELSE IF InvalidPaymentType(reply.metadata.type) THEN Respond(h, 400)
            ELSE Respond(h, 200)
    /\ UNCHANGED <<donations, webhook, job, lastRunAt, now, gateway, chipin, tokens>>

\* await Donation.findOne({paymentReference: reference})
VerifyPaymentFindOne ==
    /\ verify.pc = "findOne"
    /\ verify' = IF AlreadyProcessed(findOne(verify.reference))
                 THEN [verify EXCEPT !.pc = "findOnePopulate"]
                 ELSE [verify EXCEPT !.pc = "findOneAndUpdate"]
    /\ UNCHANGED <<donations, webhook, job, lastRunAt, now, gateway, chipin, tokens>>

\* already processed: await Donation.findOne(...).populate(...), format, 200
VerifyPaymentFindOnePopulate ==
    /\ verify.pc = "findOnePopulate"
    /\ verify' = IF findOne(verify.reference) = NoDonation
                 THEN Respond(verify, 404)
                 ELSE Respond([verify EXCEPT !.data = findOne(verify.reference)], 200)
    /\ UNCHANGED <<donations, webhook, job, lastRunAt, now, gateway, chipin, tokens>>

\* await Donation.findOneAndUpdate(..., {new: true}).populate(...), format, 200
VerifyPaymentFindOneAndUpdate ==
    /\ verify.pc = "findOneAndUpdate"
    /\ LET donation == findOneAndUpdate(verify.reference,
                                        verify.verifiedData.gateway_response)
       IN /\ donations' = Updated(verify.reference, donation)
          /\ verify' = IF donation = NoDonation
                       THEN Respond(verify, 404)
                       ELSE Respond([verify EXCEPT !.wrote = TRUE,
                                                   !.data = donation], 200)
    /\ UNCHANGED <<webhook, job, lastRunAt, now, gateway, chipin, tokens>>

\* a store call of the handler throws
VerifyPaymentStoreThrows ==
    /\ verify.pc \in {"findOne", "findOnePopulate", "findOneAndUpdate"}
    /\ verify' = Caught(verify)
    /\ UNCHANGED <<donations, webhook, job, lastRunAt, now, gateway, chipin, tokens>>

(***************************************************************************)
(* Settlement reconciliation job (runPaystackSettlementReconcile under its *)
(* Lambda handler).                                                        *)
(***************************************************************************)
\* perPage of GET /settlement and of GET /settlement/:id/transactions
SettlementsPerPage == 50
TransactionsPerPage == 100

\* SETTLEMENT_LOOKBACK_DAYS, the clock counting days
DEFAULT_LOOKBACK_DAYS == 1

\* the reference of a settlement transaction that carries none
NoRef == ""

\* txns.map((t) => t.reference).filter(Boolean), as a set
ValidReferences(txns) ==
    {txns[i] : i \in DOMAIN txns} \ {NoRef}

\* the job's filter without its status, gateway and payoutStatus conditions
ReconcileFilterByReference(donation, references, reference) ==
    /\ donation # NoDonation
    /\ reference \in references
    /\ donation.isPayoutEligible = FALSE

\* the job's filter without its isPayoutEligible condition
ReconcileFilterEligibleToo(donation, references, reference) ==
    /\ donation # NoDonation
    /\ reference \in references
    /\ donation.metadata # NoMetadata
    /\ donation.metadata.gateway = "paystack"
    /\ donation.payoutStatus = "pending"
    /\ donation.status = "completed"

\* the filter of Donation.find in the job
ReconcileFilter(donation, references, reference) ==
    /\ donation # NoDonation
    /\ reference \in references
    /\ donation.metadata # NoMetadata
    /\ donation.metadata.gateway = "paystack"
    /\ donation.isPayoutEligible = FALSE
    /\ donation.payoutStatus = "pending"
    /\ donation.status = "completed"

\* the job's update as a replacement of the document: the fields it does
\* not name fall back to the schema defaults
SettlementReplace(donation, date) ==
    [donation EXCEPT !.settledAt = date, !.isPayoutEligible = TRUE,
                     !.status = "pending", !.metadata = NoMetadata]

\* the job's update without its settledAt
SettlementUpdateEligibleOnly(donation, date) ==
    [donation EXCEPT !.isPayoutEligible = TRUE]

\* the update of each bulkWrite operation
SettlementUpdate(donation, date) ==
    [donation EXCEPT !.settledAt = date, !.isPayoutEligible = TRUE]

\* the job between runs; requested, processed and scanned record the run:
\* the settlement pages it asked for (with the length of the answer), the
\* transaction pages it asked for (with the length of the answer) and the
\* settlements whose transaction listing it walked to the end
IdleJob ==
    [pc |-> "idle", from |-> NoDate, page |-> 0, settlements |-> <<>>,
     index |-> 0, txnPage |-> 0, txnsLength |-> 0, references |-> {},
     found |-> {},
     totalReconciled |-> 0, statusCode |-> 0,
     requested |-> <<>>, processed |-> <<>>, scanned |-> <<>>]

\* the listing with the page size of the transaction listing
ListSettlementsRequestPerPage100(j) ==
    [from |-> j.from, status |-> "success", perPage |-> TransactionsPerPage,
     page |-> j.page]

\* the params of listSettlements and of listSettlementTransactions
ListSettlementsRequest(j) ==
    [from |-> j.from, status |-> "success", perPage |-> SettlementsPerPage,
     page |-> j.page]

ListTransactionsRequest(j) ==
    [id |-> j.settlements[j.index], perPage |-> TransactionsPerPage,
     page |-> j.txnPage]

\* the from of a run: lastRunAt ?? now - lookback
FromOf(lastRun, date) ==
    IF lastRun # NoDate THEN lastRun ELSE date - DEFAULT_LOOKBACK_DAYS

\* the job after the catch of the Lambda handler
Failed(j) == [j EXCEPT !.pc = "done", !.statusCode = 500]

\* the walk that takes every transaction page for the last of its settlement
AfterTransactionPageBreaks(j, pageLength) ==
    IF j.index < Len(j.settlements)
    THEN [j EXCEPT !.pc = "listTransactions", !.index = @ + 1, !.txnPage = 1,
                   !.txnsLength = 0, !.references = {}, !.found = {},
                   !.scanned = Append(@, j.settlements[j.index])]
    ELSE IF Len(j.settlements) < SettlementsPerPage
    THEN [j EXCEPT !.pc = "updateLastRun", !.page = @ + 1,
                   !.txnsLength = 0, !.references = {}, !.found = {},
                   !.scanned = Append(@, j.settlements[j.index])]
    ELSE [j EXCEPT !.pc = "listSettlements", !.page = @ + 1,
                   !.txnsLength = 0, !.references = {}, !.found = {},
                   !.scanned = Append(@, j.settlements[j.index])]

\* the job after one transaction page of the current settlement: txnPage++,
\* and on a short page the next settlement, after the last settlement page++
\* and on a short settlement page the end of the listing
AfterTransactionPage(j, pageLength) ==
    IF pageLength >= TransactionsPerPage
    THEN [j EXCEPT !.pc = "listTransactions", !.txnPage = @ + 1,
                   !.txnsLength = 0, !.references = {}, !.found = {}]
    ELSE IF j.index < Len(j.settlements)
    THEN [j EXCEPT !.pc = "listTransactions", !.index = @ + 1, !.txnPage = 1,
                   !.txnsLength = 0, !.references = {}, !.found = {},
                   !.scanned = Append(@, j.settlements[j.index])]
    ELSE IF Len(j.settlements) < SettlementsPerPage
    THEN [j EXCEPT !.pc = "updateLastRun", !.page = @ + 1,
                   !.txnsLength = 0, !.references = {}, !.found = {},
                   !.scanned = Append(@, j.settlements[j.index])]
    ELSE [j EXCEPT !.pc = "listSettlements", !.page = @ + 1,
                   !.txnsLength = 0, !.references = {}, !.found = {},
                   !.scanned = Append(@, j.settlements[j.index])]

\* the Lambda handler is triggered: Job.getLastRun and the from of the run
ReconcileStart(date) ==
    /\ job.pc \in {"idle", "done"}
    /\ now' = date
    /\ job' = [IdleJob EXCEPT !.pc = "listSettlements",
                              !.from = FromOf(lastRunAt, date), !.page = 1]
    /\ UNCHANGED <<donations, webhook, verify, lastRunAt, gateway, chipin, tokens>>

\* await listSettlements({from, status: "success", perPage: 50, page})
ReconcileListSettlements(reply) ==
    /\ job.pc = "listSettlements"
    /\ LET j == [job EXCEPT !.requested =
                        Append(@, [length |-> Len(reply)]
                                  @@ ListSettlementsRequest(job))]
       IN job' = IF Len(reply) = 0 THEN [j EXCEPT !.pc = "updateLastRun"]
                 ELSE [j EXCEPT !.pc = "listTransactions", !.settlements = reply,
                                !.index = 1, !.txnPage = 1]
    /\ UNCHANGED <<donations, webhook, verify, lastRunAt, now, gateway, chipin, tokens>>

\* await listSettlementTransactions(settlement.id, {perPage: 100, page: txnPage})
\* and the collection of the page's references
ReconcileListTransactions(reply) ==
    /\ job.pc = "listTransactions"
    /\ LET j == [job EXCEPT !.processed =
                        Append(@, [length |-> Len(reply)]
                                  @@ ListTransactionsRequest(job))]
       IN job' = IF Len(reply) = 0 THEN AfterTransactionPage(j, 0)
                 ELSE IF ValidReferences(reply) = {}
                 THEN AfterTransactionPage(j, Len(reply))
                 ELSE [j EXCEPT !.pc = "find", !.txnsLength = Len(reply),
                                !.references = ValidReferences(reply)]
    /\ UNCHANGED <<donations, webhook, verify, lastRunAt, now, gateway, chipin, tokens>>

\* await Donation.find({paymentReference: {$in: references}, ...})
ReconcileFind ==
    /\ job.pc = "find"
    /\ LET found == {r \in Refs :
                        ReconcileFilter(donations[r], job.references, r)}
       IN job' = IF found = {} THEN AfterTransactionPage(job, job.txnsLength)
                 ELSE [job EXCEPT !.pc = "bulkWrite", !.found = found]
    /\ UNCHANGED <<donations, webhook, verify, lastRunAt, now, gateway, chipin, tokens>>

\* Donation.bulkWrite of one updateOne by _id per donation in `written`
bulkWrite(written, date) ==
    [r \in Refs |-> IF r \in written THEN SettlementUpdate(donations[r], date)
                    ELSE donations[r]]

\* const now = new Date(); await Donation.bulkWrite(bulkOps)
ReconcileBulkWrite(date) ==
    /\ job.pc = "bulkWrite"
    /\ now' = date
    /\ donations' = bulkWrite(job.found, date)
    /\ job' = AfterTransactionPage(
                [job EXCEPT !.totalReconciled = @ + Cardinality(job.found)],
                job.txnsLength)
    /\ UNCHANGED <<webhook, verify, lastRunAt, gateway, chipin, tokens>>

\* the checkpoint set to the start of the lookback window
updateLastRunToLookback(date) == date - DEFAULT_LOOKBACK_DAYS

\* Job.updateLastRun: upsert {lastRunAt: new Date()}
updateLastRun(date) == date

\* await Job.updateLastRun("paystack_settlement_reconcile"), statusCode 200
ReconcileUpdateLastRun(date) ==
    /\ job.pc = "updateLastRun"
    /\ now' = date
    /\ lastRunAt' = updateLastRun(date)
    /\ job' = [job EXCEPT !.pc = "done", !.statusCode = 200]
    /\ UNCHANGED <<donations, webhook, verify, gateway, chipin, tokens>>

\* a listing call of the job throws (timeout, connection error, non-2xx)
ReconcileGatewayThrows ==
    /\ job.pc \in {"listSettlements", "listTransactions"}
    /\ job' = Failed(job)
    /\ UNCHANGED <<donations, webhook, verify, lastRunAt, now, gateway, chipin, tokens>>

\* a store call of the job throws; an ordered bulkWrite that throws has
\* applied the operations before the failing one
ReconcileStoreThrows(written, date) ==
    /\ job.pc \in {"find", "bulkWrite", "updateLastRun"}
    /\ written \subseteq job.found
    /\ written # job.found \/ job.pc # "bulkWrite"
    /\ job.pc # "bulkWrite" => written = {}
    /\ now' = date
    /\ donations' = bulkWrite(written, date)
    /\ job' = Failed(job)
    /\ UNCHANGED <<webhook, verify, lastRunAt, gateway, chipin, tokens>>

(***************************************************************************)
(* UserToken: the one-time tokens of email verification and password       *)
(* reset, for one user and one token type.  Each await of verifyToken is   *)
(* one step, so that two requests interleave on the token document.        *)
(***************************************************************************)
\* the tokens a request can carry
Tokens == {"111111", "222222"}

\* the requests that verify a token at the same time
Callers == {1, 2}

\* no token document of the user and type
NoToken == [absent |-> "token"]

\* crypto.createHash("sha256").update(token).digest("hex"), collision free
Sha256(token) == [sha256 |-> token]

\* checkAttempts(5)
MaxAttempts == 5

\* the lifetime of a token and the interval in which no new one is sent, in
\* ticks of the clock
TokenLifetime == 1
timeInterval == 1

\* the _ids of token documents that are in the store or in a caller's hands
MaxTokens == 3
TokenIds == 1..MaxTokens

\* the document that createToken creates as the _id-th of the collection
NewToken(id, token, date) ==
    [id |-> id, token |-> Sha256(token), expiresAt |-> date + TokenLifetime,
     attempts |-> 0, lastSentAt |-> date]

\* tokenDoc.isExpired() at `date`
isExpired(tokenDoc, date) == tokenDoc.expiresAt < date

\* tokenDoc.checkAttempts(maxAttempts)
checkAttempts(tokenDoc, maxAttempts) == tokenDoc.attempts >= maxAttempts

\* a caller with no call yet
IdleCall ==
    [pc |-> "idle", hashedToken |-> Sha256(""), tokenDoc |-> NoToken,
     result |-> "none"]

\* the call resolves, or rejects with an AppError
Resolved(call) == [call EXCEPT !.pc = "done", !.result = "resolved"]
Rejected(call) == [call EXCEPT !.pc = "done", !.result = "rejected"]

\* UserToken.createToken(userId, type): refused while the last token is
\* recent, else the old documents deleted and a new one created
CreateToken(id, token) ==
    /\ userToken # NoToken => id # userToken.id
    /\ \A c \in Callers :
          verifyToken[c].tokenDoc # NoToken => id # verifyToken[c].tokenDoc.id
    /\ ~(userToken # NoToken /\ now - userToken.lastSentAt < timeInterval)
    /\ userToken' = NewToken(id, token, now)
    /\ UNCHANGED <<donations, webhook, verify, job, lastRunAt, now, gateway,
                   chipin, verifyToken>>

\* the TTL index on expiresAt: the store drops a document whose time has come
TtlExpire ==
    /\ userToken # NoToken
    /\ userToken.expiresAt <= now
    /\ userToken' = NoToken
    /\ UNCHANGED <<donations, webhook, verify, job, lastRunAt, now, gateway,
                   chipin, verifyToken>>

\* verifyToken(token, type, email) is called: the hash, await User.findOne
VerifyTokenCall(c, token) ==
    /\ verifyToken[c].pc \in {"idle", "done"}
    /\ verifyToken' = [verifyToken EXCEPT
                          ![c] = [IdleCall EXCEPT !.pc = "findOne",
                                                  !.hashedToken = Sha256(token)]]
    /\ UNCHANGED <<donations, webhook, verify, job, lastRunAt, now, gateway,
                   chipin, userToken>>

\* await this.findOne({user, type}) and the checks of the document: absent,
\* expired or out of attempts, wrong token (attempts += 1), right token
VerifyTokenFindOne(c) ==
    /\ verifyToken[c].pc = "findOne"
    /\ LET call == [verifyToken[c] EXCEPT !.tokenDoc = userToken]
       IN verifyToken' = [verifyToken EXCEPT ![c] =
            IF userToken = NoToken THEN Rejected(call)
            ELSE IF isExpired(userToken, now)
                    \/ checkAttempts(userToken, MaxAttempts)
            THEN Rejected(call)
            ELSE IF userToken.token # call.hashedToken
            THEN [call EXCEPT !.pc = "save", !.tokenDoc.attempts = @ + 1]
            ELSE [call EXCEPT !.pc = "deleteOne"]]
    /\ UNCHANGED <<donations, webhook, verify, job, lastRunAt, now, gateway,
                   chipin, userToken>>

\* await tokenDoc.save(): the attempts of the document in hand are written
\* to the stored document of its _id, if there still is one; then the throw
VerifyTokenSave(c) ==
    /\ verifyToken[c].pc = "save"
    /\ userToken' =
          IF userToken # NoToken /\ userToken.id = verifyToken[c].tokenDoc.id
          THEN [userToken EXCEPT !.attempts = verifyToken[c].tokenDoc.attempts]
          ELSE userToken
    /\ verifyToken' = [verifyToken EXCEPT ![c] = Rejected(@)]
    /\ UNCHANGED <<donations, webhook, verify, job, lastRunAt, now, gateway,
                   chipin>>

\* await this.deleteOne({_id: tokenDoc._id}), which deletes one document or
\* none, and the return
VerifyTokenDeleteOne(c) ==
    /\ verifyToken[c].pc = "deleteOne"
    /\ userToken' =
          IF userToken # NoToken /\ userToken.id = verifyToken[c].tokenDoc.id
          THEN NoToken
          ELSE userToken
    /\ verifyToken' = [verifyToken EXCEPT ![c] = Resolved(@)]
    /\ UNCHANGED <<donations, webhook, verify, job, lastRunAt, now, gateway,
                   chipin>>

(***************************************************************************)
(* Specification.                                                          *)
(***************************************************************************)
vars == <<donations, webhook, verify, job, lastRunAt, now, gateway, chipin, tokens>>

\* the clock starts late enough for the first lookback window
StartTime == DEFAULT_LOOKBACK_DAYS

Init ==
    /\ donations = [r \in Refs |-> NoDonation]
    /\ webhook = IdleWebhook
    /\ verify = IdleVerify
    /\ job = IdleJob
    /\ lastRunAt = NoDate
    /\ now = StartTime
    /\ gateway = <<>>
    /\ chipin = IdleChipin
    /\ userToken = NoToken
    /\ verifyToken = [c \in Callers |-> IdleCall]

\* the steps of the payment handlers, on all their inputs
Payments ==
    \/ \E e \in ChipInEvents, a \in ChipInAmounts, r \in Refs : Chipin(e, a, r)
    \/ \E b \in Bodies : \E s \in Signatures(b) : PaystackWebhookReceive(b, s)
    \/ \E reply \in VerifyReplies \cup {NoReply} :
          PaystackWebhookVerifyTransaction(reply)
    \/ PaystackWebhookFindOne
    \/ PaystackWebhookFindOneAndUpdate
    \/ PaystackWebhookStoreThrows
    \/ \E r \in Refs \cup {NoReference} : VerifyPaymentReceive(r)
    \/ \E reply \in VerifyReplies \cup {NoReply} :
          VerifyPaymentVerifyTransaction(reply)
    \/ VerifyPaymentFindOne
    \/ VerifyPaymentFindOnePopulate
    \/ VerifyPaymentFindOneAndUpdate
    \/ VerifyPaymentStoreThrows

Next == Payments

\* the payment handlers racing each other
Spec == Init /\ [][Next]_vars

(***************************************************************************)
(* The payment handlers racing the reconciliation job.  The requests are   *)
(* the ones that reach the store (a signed charge.success webhook, a       *)
(* verify-payment with a reference, a successful chip-in transaction), the *)
(* gateway's settlement listings are short pages over the references, and  *)
(* the clock stands still.                                                 *)
(***************************************************************************)
AcceptedEvent ==
    [isPrivate |-> TRUE,
     chipInDetails |-> [chipInType |-> "donation", minAmount |-> 5000,
                        fixedAmount |-> 5000]]

SignedBodies ==
    {b \in Bodies : b.form = "compact" /\ b.payload.event = "charge.success"}

PaidReplies == {GatewayReply("success", "chipin", a, 0, "Successful") : a \in Amounts}

\* settlement pages: sequences of settlement ids
ShortSettlementPages == {<<>>, <<1>>}

\* transaction pages: sequences of references
ShortTransactionPages ==
    {<<>>, <<NoRef>>} \cup {<<r>> : r \in Refs}
    \cup {<<r1, NoRef, r2>> : r1 \in Refs, r2 \in Refs}

NextReconcile ==
    \/ \E a \in Amounts, r \in Refs : Chipin(AcceptedEvent, a, r)
    \/ \E b \in SignedBodies :
          PaystackWebhookReceive(b, Hmac(PAYSTACK_SECRET_KEY, b))
    \/ \E reply \in PaidReplies : PaystackWebhookVerifyTransaction(reply)
    \/ PaystackWebhookFindOne
    \/ PaystackWebhookFindOneAndUpdate
    \/ \E r \in Refs : VerifyPaymentReceive(r)
    \/ \E reply \in PaidReplies : VerifyPaymentVerifyTransaction(reply)
    \/ VerifyPaymentFindOne
    \/ VerifyPaymentFindOnePopulate
    \/ VerifyPaymentFindOneAndUpdate
    \/ ReconcileStart(now)
    \/ \E reply \in ShortSettlementPages : ReconcileListSettlements(reply)
    \/ \E reply \in ShortTransactionPages : ReconcileListTransactions(reply)
    \/ ReconcileGatewayThrows
    \/ ReconcileFind
    \/ ReconcileBulkWrite(now)
    \/ ReconcileUpdateLastRun(now)
    \/ \E w \in SUBSET Refs : ReconcileStoreThrows(w, now)

SpecReconcile == Init /\ [][NextReconcile]_vars

(***************************************************************************)
(* The reconciliation job run on schedule against the gateway's settlement *)
(* ledger, the clock running.  The donations are the ones chip-in and the  *)
(* completion paths leave behind.                                          *)
(***************************************************************************)
\* the latest day of the clock
MaxTime == 2

\* a settlement of the gateway: its status, its date and the references of
\* its transactions
Settlement(status, date, txns) == [status |-> status, date |-> date, txns |-> txns]

\* n transactions that carry no reference
Unreferenced(n) == [i \in 1..n |-> NoRef]

\* page `page` of a listing served in pages of perPage entries
PageOf(list, page, perPage) ==
    SubSeq(list, (page - 1) * perPage + 1,
           IF page * perPage < Len(list) THEN page * perPage ELSE Len(list))

\* the ids of the settlements of a status dated from `from` on, oldest first
SettlementsSince(status, from) ==
    LET Listed(i) == gateway[i].status = status /\ gateway[i].date >= from
    IN SelectSeq([i \in 1..Len(gateway) |-> i], Listed)

\* GET /settlement and GET /settlement/:id/transactions
GatewayListSettlements(request) ==
    PageOf(SettlementsSince(request.status, request.from),
           request.page, request.perPage)

GatewayListTransactions(request) ==
    PageOf(gateway[request.id].txns, request.page, request.perPage)

\* the from of a run of day StartTime that finds no checkpoint
FirstFrom == StartTime - DEFAULT_LOOKBACK_DAYS

\* the ledgers the runs start from, all of day FirstFrom: a first settlement
\* whose first transaction page is full and names no reference and whose
\* second names CHIP-IN_1, a last settlement of exactly one full page that
\* names CHIP-IN_2, empty settlements between them, and a settlement that
\* is still pending; as many successful ones as one full page, or as a full
\* page and 30
Ledgers ==
    {[i \in 1..(n + 1) |->
        IF i = 1
        THEN Settlement("success", FirstFrom,
                        Unreferenced(TransactionsPerPage) \o <<"CHIP-IN_1">>)
        ELSE IF i = 2
        THEN Settlement("pending", FirstFrom, <<"CHIP-IN_2">>)
        ELSE IF i = n + 1
        THEN Settlement("success", FirstFrom,
                        <<"CHIP-IN_2">> \o Unreferenced(TransactionsPerPage - 1))
        ELSE Settlement("success", FirstFrom, <<>>)] :
     n \in {SettlementsPerPage, SettlementsPerPage + 30}}

\* a donation after chip-in, and after its completion
PendingDonation == NewDonation(5000)
CompletedDonation(reference) ==
    CompletionUpdate(PendingDonation, reference, "Successful")

InitJob ==
    /\ donations \in [Refs -> {PendingDonation}
                              \cup {CompletedDonation(r) : r \in Refs}]
    /\ \A r \in Refs :
          donations[r].metadata # NoMetadata
              => donations[r].metadata.transactionId = r
    /\ webhook = IdleWebhook
    /\ verify = IdleVerify
    /\ job = IdleJob
    /\ lastRunAt = NoDate
    /\ now = StartTime
    /\ gateway \in Ledgers
    /\ chipin = IdleChipin
    /\ userToken = NoToken
    /\ verifyToken = [c \in Callers |-> IdleCall]

\* a day passes
Tick ==
    /\ now < MaxTime
    /\ now' = now + 1
    /\ UNCHANGED <<donations, webhook, verify, job, lastRunAt, gateway, chipin, tokens>>

\* the gateway settles the transaction of `reference`, at most once a day
GatewaySettle(reference) ==
    /\ \A i \in DOMAIN gateway : gateway[i].date < now
    /\ gateway' = Append(gateway, Settlement("success", now, <<reference>>))
    /\ UNCHANGED <<donations, webhook, verify, job, lastRunAt, now, chipin,
                   tokens>>

NextJob ==
    \/ ReconcileStart(now)
    \/ /\ job.pc = "listSettlements"
       /\ ReconcileListSettlements(
             GatewayListSettlements(ListSettlementsRequest(job)))
    \/ /\ job.pc = "listTransactions"
       /\ ReconcileListTransactions(
             GatewayListTransactions(ListTransactionsRequest(job)))
    \/ ReconcileGatewayThrows
    \/ ReconcileFind
    \/ ReconcileBulkWrite(now)
    \/ ReconcileUpdateLastRun(now)
    \/ \E w \in SUBSET Refs : ReconcileStoreThrows(w, now)
    \/ Tick
    \/ \E r \in Refs : GatewaySettle(r)

SpecJob == InitJob /\ [][NextJob]_vars

\* the steps of a run whose awaited calls return
ReconcileProceeds ==
    \/ /\ job.pc = "listSettlements"
       /\ ReconcileListSettlements(
             GatewayListSettlements(ListSettlementsRequest(job)))
    \/ /\ job.pc = "listTransactions"
       /\ ReconcileListTransactions(
             GatewayListTransactions(ListTransactionsRequest(job)))
    \/ ReconcileFind
    \/ ReconcileBulkWrite(now)
    \/ ReconcileUpdateLastRun(now)

\* the runs of one day, the ledger as it is
NextRun ==
    \/ ReconcileStart(now)
    \/ ReconcileProceeds
    \/ ReconcileGatewayThrows
    \/ \E w \in SUBSET Refs : ReconcileStoreThrows(w, now)

\* the job under a runtime that resumes every awaited call
SpecJobFair == InitJob /\ [][NextRun]_vars /\ WF_vars(ReconcileProceeds)

\* the runs of several days on the ledger as it is, under the same runtime
NextRerun == NextRun \/ Tick

SpecJobRerun == InitJob /\ [][NextRerun]_vars /\ WF_vars(ReconcileProceeds)

(***************************************************************************)
(* Completion by the webhook and scheduled runs that succeed, the clock    *)
(* running: the gateway has settled the transactions of two pending        *)
(* donations.                                                              *)
(***************************************************************************)
InitLive ==
    /\ donations = [r \in Refs |-> PendingDonation]
    /\ webhook = IdleWebhook
    /\ verify = IdleVerify
    /\ job = IdleJob
    /\ lastRunAt = NoDate
    /\ now = StartTime
    /\ gateway = <<Settlement("success", StartTime, <<"CHIP-IN_1", "CHIP-IN_2">>)>>
    /\ chipin = IdleChipin
    /\ userToken = NoToken
    /\ verifyToken = [c \in Callers |-> IdleCall]

\* the webhook of a paid chip-in, from its delivery to its answer
WebhookCompletes ==
    \/ \E b \in SignedBodies :
          PaystackWebhookReceive(b, Hmac(PAYSTACK_SECRET_KEY, b))
    \/ \E reply \in PaidReplies : PaystackWebhookVerifyTransaction(reply)
    \/ PaystackWebhookFindOne
    \/ PaystackWebhookFindOneAndUpdate

\* the schedule triggers the job again and its awaited calls return
ScheduledRun == ReconcileStart(now) \/ ReconcileProceeds

NextLive == WebhookCompletes \/ ScheduledRun \/ Tick

SpecLive ==
    InitLive /\ [][NextLive]_vars /\ WF_vars(ScheduledRun) /\ WF_vars(Tick)

(***************************************************************************)
(* Chip-ins of many amounts: the fee calculator on the positive amounts    *)
(* that are multiples of 100, up to 100 * MaxHundreds.                     *)
(***************************************************************************)
MaxHundreds == 100

FeeAmounts == {100 * k : k \in 1..MaxHundreds}

\* a private event that takes donations from 100 on
FeeEvent ==
    [isPrivate |-> TRUE,
     chipInDetails |-> [chipInType |-> "donation", minAmount |-> 100,
                        fixedAmount |-> 100]]

NextFee ==
    \E e \in ChipInEvents \cup {FeeEvent}, a \in FeeAmounts \cup {0}, r \in Refs :
        Chipin(e, a, r)

SpecFee == Init /\ [][NextFee]_vars

(***************************************************************************)
(* Chip-in requests with their record, on events of every kind and on      *)
(* amounts around zero, and verify-payment on the transactions the         *)
(* gateway made of them.                                                   *)
(***************************************************************************)
\* a public event with chip-in details, and a private one that takes
\* donations of any amount
PublicEvent ==
    [isPrivate |-> FALSE,
     chipInDetails |-> [chipInType |-> "donation", minAmount |-> 100,
                        fixedAmount |-> 100]]
OpenEvent ==
    [isPrivate |-> TRUE,
     chipInDetails |-> [chipInType |-> "donation", minAmount |-> 0,
                        fixedAmount |-> 0]]

RequestEvents == ChipInEvents \cup {FeeEvent, PublicEvent, OpenEvent}
RequestAmounts == {-100, 0, 100, 5000}

\* GET /transaction/verify/:reference for a paid transaction: the gateway
\* returns the amount and the metadata it was initialized with
GatewayEcho(initialize) ==
    [status |-> "success",
     amount |-> initialize.amount,
     gateway_response |-> "Successful",
     metadata |-> initialize.metadata]

NextChipin ==
    \/ \E e \in RequestEvents, a \in RequestAmounts, r \in Refs,
          answer \in InitializeAnswers : ChipinRequest(e, a, r, answer)
    \/ /\ chipin.initialize # NoReply
       /\ VerifyPaymentReceive(chipin.reference)
    \/ /\ chipin.initialize # NoReply
       /\ verify.reference = chipin.reference
       /\ VerifyPaymentVerifyTransaction(GatewayEcho(chipin.initialize))
    \/ VerifyPaymentFindOne
    \/ VerifyPaymentFindOnePopulate
    \/ VerifyPaymentFindOneAndUpdate

SpecChipin == Init /\ [][NextChipin]_vars

(***************************************************************************)
(* The token store under concurrent verifications, the clock running.      *)
(***************************************************************************)
InitToken ==
    /\ donations = [r \in Refs |-> NoDonation]
    /\ webhook = IdleWebhook
    /\ verify = IdleVerify
    /\ job = IdleJob
    /\ lastRunAt = NoDate
    /\ now = StartTime - TokenLifetime
    /\ gateway = <<>>
    /\ chipin = IdleChipin
    /\ userToken = NoToken
    /\ verifyToken = [c \in Callers |-> IdleCall]

NextToken ==
    \/ \E id \in TokenIds, t \in Tokens : CreateToken(id, t)
    \/ TtlExpire
    \/ \E c \in Callers, t \in Tokens : VerifyTokenCall(c, t)
    \/ \E c \in Callers : VerifyTokenFindOne(c)
    \/ \E c \in Callers : VerifyTokenSave(c)
    \/ \E c \in Callers : VerifyTokenDeleteOne(c)
    \/ Tick

SpecToken == InitToken /\ [][NextToken]_vars

(***************************************************************************)
(* The completion paths on a collection that holds donations of every      *)
(* status of the schema: pending, completed, failed and refunded.          *)
(***************************************************************************)
\* a donation whose payment failed, and one refunded after its completion
FailedDonation == [PendingDonation EXCEPT !.status = "failed"]
RefundedDonation(reference) ==
    [CompletedDonation(reference) EXCEPT !.status = "refunded"]

InitLifecycle ==
    /\ donations \in [Refs -> {PendingDonation, FailedDonation}
                              \cup {CompletedDonation(r) : r \in Refs}
                              \cup {RefundedDonation(r) : r \in Refs}]
    /\ \A r \in Refs :
          donations[r].metadata # NoMetadata
              => donations[r].metadata.transactionId = r
    /\ webhook = IdleWebhook
    /\ verify = IdleVerify
    /\ job = IdleJob
    /\ lastRunAt = NoDate
    /\ now = StartTime
    /\ gateway = <<>>
    /\ chipin = IdleChipin
    /\ userToken = NoToken
    /\ verifyToken = [c \in Callers |-> IdleCall]

\* verify-payment on a paid chip-in, from the request to its answer
VerifyPaymentCompletes ==
    \/ \E r \in Refs : VerifyPaymentReceive(r)
    \/ \E reply \in PaidReplies : VerifyPaymentVerifyTransaction(reply)
    \/ VerifyPaymentFindOne
    \/ VerifyPaymentFindOnePopulate
    \/ VerifyPaymentFindOneAndUpdate

NextLifecycle == WebhookCompletes \/ VerifyPaymentCompletes

SpecLifecycle == InitLifecycle /\ [][NextLifecycle]_vars

(***************************************************************************)
(* Properties.                                                             *)
(***************************************************************************)
Handlers == {webhook, verify}

\* the request of handler h got an answer
Answered(h) == h.pc = "done"

\* the gateway verified the transaction of h as a successful chip-in
VerifiedChipin(h) ==
    /\ h.verifiedData # NoReply
    /\ h.verifiedData.status = "success"
    /\ h.verifiedData.metadata.type = "chipin"

Completed(reference) ==
    donations[reference] # NoDonation /\ donations[reference].status = "completed"

\* C1: in every reachable state, under any interleaving of chip-in, webhook,
\* verify-payment and reconciliation steps, a donation with
\* isPayoutEligible = true has status completed.
C1_PayoutEligibleIsCompleted ==
    \A r \in Refs :
        (donations[r] # NoDonation /\ donations[r].isPayoutEligible)
            => donations[r].status = "completed"

\* the job has marked a donation on which a completion write is still pending
C1_Witness ==
    \E r \in Refs :
        /\ donations[r] # NoDonation
        /\ donations[r].isPayoutEligible
        /\ verify.pc = "findOneAndUpdate"
        /\ verify.reference = r

\* C2 (as claimed): of a webhook and a verify-payment request racing on the
\* same pending reference exactly one performs an effective write, the other
\* matches no record.
C2_ExactlyOneEffectiveWrite ==
    ~(/\ webhook.reference = verify.reference
      /\ webhook.statusAtStart = "pending"
      /\ verify.statusAtStart = "pending"
      /\ webhook.wrote
      /\ verify.wrote)

\* C3: a webhook and a verify-payment request for the same existing
\* reference, successfully verified with a matching amount, are both answered
\* 200 in any interleaving of their steps unless a call of theirs threw, the
\* donation ends completed, and verify-payment returns the completed record.
C3_RaceAnsweredWithSuccess ==
    \A h \in Handlers :
        (/\ Answered(h)
         /\ VerifiedChipin(h)
         /\ AmountMatches(h.verifiedData)
         /\ h.statusAtStart # "none"
         /\ ~h.threw)
            => /\ h.status = 200
               /\ Completed(h.reference)
               /\ h = verify => verify.data.status = "completed"

\* both requests raced on one pending reference, both wrote, both got 200
C3_Witness ==
    /\ webhook.reference = verify.reference
    /\ webhook.statusAtStart = "pending" /\ verify.statusAtStart = "pending"
    /\ webhook.wrote /\ verify.wrote
    /\ webhook.status = 200 /\ verify.status = 200
    /\ Completed(verify.reference)

\* C4: a completion request that starts when its donation is already
\* completed (the second of two sequential calls, on either entry point)
\* writes nothing: no step of it changes the donation collection.
C4_SecondCallWritesNothing ==
    [][\A h \in Handlers :
          h.statusAtStart = "completed"
              => /\ ~h.wrote
                 /\ (h = webhook /\ webhook' # webhook) => UNCHANGED donations
                 /\ (h = verify /\ verify' # verify) => UNCHANGED donations]_vars

\* verify-payment completed the donation, the webhook that came after it was
\* answered 200 without writing
C4_Witness ==
    /\ webhook.reference = verify.reference
    /\ verify.wrote /\ verify.status = 200
    /\ webhook.statusAtStart = "completed"
    /\ Answered(webhook) /\ webhook.status = 200 /\ VerifiedChipin(webhook)
    /\ ~webhook.wrote

\* C5: verify-payment answers 400 and writes nothing when the verified amount
\* differs from (originalAmount + transaction_fee) * 100 (514000 for 5000 and
\* 150), and completes the donation when it is equal (515000).
C5_VerifyPaymentChecksAmount ==
    (Answered(verify) /\ VerifiedChipin(verify) /\ ~verify.threw)
        => /\ ~AmountMatches(verify.verifiedData)
                => (verify.status = 400 /\ ~verify.wrote)
           /\ (verify.verifiedData.metadata.originalAmount = 5000
               /\ verify.verifiedData.amount = 514000)
                => (verify.status = 400 /\ ~verify.wrote)
           /\ (verify.verifiedData.metadata.originalAmount = 5000
               /\ verify.verifiedData.amount = 515000
               /\ verify.statusAtStart # "none")
                => (verify.status = 200 /\ Completed(verify.reference))

\* verify-payment rejected 514000 for a pending donation of 5000, which stays
\* pending
C5_Witness ==
    /\ Answered(verify)
    /\ verify.verifiedData # NoReply
    /\ verify.verifiedData.amount = 514000
    /\ verify.status = 400
    /\ donations[verify.reference] # NoDonation
    /\ donations[verify.reference].status = "pending"
    /\ donations[verify.reference].amount = 5000
    /\ donations[verify.reference].fee = 150

\* C6 (as claimed): no entry point completes a donation on a verified amount
\* that differs from the expected amount plus fee in kobo.
C6_NoCompletionOnAmountMismatch ==
    \A h \in Handlers : h.wrote => AmountMatches(h.verifiedData)

\* handler h has decided on the pending donation of its request by its own
\* checks of the verification result: it has written the completion, or it
\* has written nothing and the donation is still pending
Decided(h) ==
    /\ Answered(h) /\ ~h.threw /\ VerifiedChipin(h)
    /\ h.statusAtStart = "pending"
    /\ h.wrote \/ donations[h.reference].status = "pending"

\* C7 (as claimed): the two entry points take the same decision on the same
\* verification result, so that the donation's final state is the same
\* whichever of them runs first and the same as if only one of them ran.
C7_SameDecisionOnEitherPath ==
    (/\ Decided(webhook)
     /\ Decided(verify)
     /\ webhook.verifiedData = verify.verifiedData)
        => webhook.wrote = verify.wrote

\* C8: a donation whose status is completed never returns to pending, whatever
\* step of chip-in, the completion paths or the reconciliation job comes next.
C8_CompletedNeverPending ==
    [][\A r \in Refs :
          Completed(r) => (donations'[r] # NoDonation
                           /\ donations'[r].status # "pending")]_vars

\* a completed donation that both completion paths and the job have written
C8_Witness ==
    \E r \in Refs :
        /\ Completed(r)
        /\ donations[r].isPayoutEligible
        /\ webhook.reference = r /\ webhook.wrote
        /\ verify.reference = r /\ verify.wrote

\* C9: a completed donation always carries its metadata: transactionId equal
\* to its reference, gateway paystack and the gateway's response code.
C9_CompletedHasMetadata ==
    \A r \in Refs :
        Completed(r)
            => /\ donations[r].metadata # NoMetadata
               /\ donations[r].metadata.transactionId = r
               /\ donations[r].metadata.gateway = "paystack"
               /\ donations[r].metadata.gatewayResponse \in GatewayResponses

\* the two paths raced with different response codes: the second write
\* replaced the metadata of the first
C9_Witness ==
    \E r \in Refs :
        /\ Completed(r)
        /\ webhook.reference = r /\ webhook.wrote
        /\ verify.reference = r /\ verify.wrote
        /\ webhook.verifiedData.gateway_response
            # verify.verifiedData.gateway_response

\* the signature header of the webhook request is not the HMAC of the
\* received bytes, or not that of the payload as the handler serializes it
BadSignature(h) ==
    \/ h.signature # Hmac(PAYSTACK_SECRET_KEY, h.rawBody)
    \/ h.signature # Hmac(PAYSTACK_SECRET_KEY, JSONstringify(ParseBody(h.rawBody)))

CorrectlySigned(h) == h.signature = Hmac(PAYSTACK_SECRET_KEY, h.rawBody)

\* the gateway answered the verification call of h
Verified(h) == h.called /\ h.verifiedData # NoReply

\* C11: a correctly signed webhook whose event is anything other than
\* charge.success is answered 400: no gateway call is made and no donation is
\* written.
C11_OtherEventRejected ==
    (/\ webhook.pc # "idle"
     /\ CorrectlySigned(webhook)
     /\ ParseBody(webhook.rawBody).event # "charge.success")
        => /\ Answered(webhook)
           /\ webhook.status = 400
           /\ ~webhook.called
           /\ ~webhook.wrote

\* a transfer.success webhook that passes the hash comparison, for a pending
\* donation, was answered 400
C11_Witness ==
    /\ Answered(webhook)
    /\ webhook.status = 400
    /\ CorrectlySigned(webhook)
    /\ webhook.signature = WebhookHash(ParseBody(webhook.rawBody))
    /\ webhook.rawBody.payload.event = "transfer.success"
    /\ donations[webhook.rawBody.payload.data.reference] # NoDonation
    /\ donations[webhook.rawBody.payload.data.reference].status = "pending"

\* C12: the webhook writes a completion only after the gateway's
\* verifyTransaction for its reference returned status success; a verification
\* with another status is answered 400 and writes nothing.
C12_WebhookCompletesOnlyVerified ==
    /\ webhook.wrote
         => (Verified(webhook) /\ webhook.verifiedData.status = "success")
    /\ webhook.pc \in {"findOne", "findOneAndUpdate"}
         => (Verified(webhook) /\ webhook.verifiedData.status = "success")
    /\ (Answered(webhook) /\ Verified(webhook)
        /\ webhook.verifiedData.status # "success")
         => (webhook.status = 400 /\ ~webhook.wrote)

\* a signed charge.success webhook for a pending donation whose transaction
\* the gateway reports as failed was answered 400, the donation is pending
C12_Witness ==
    /\ Answered(webhook)
    /\ Verified(webhook)
    /\ webhook.verifiedData.status = "failed"
    /\ webhook.status = 400
    /\ webhook.statusAtStart = "pending"
    /\ donations[webhook.reference].status = "pending"

\* C13: when the payment type of the verified transaction is neither chipin
\* nor ticket, the webhook and verify-payment answer 400 and write nothing.
C13_UnknownPaymentTypeRejected ==
    \A h \in Handlers :
        (/\ Answered(h)
         /\ Verified(h)
         /\ h.verifiedData.status = "success"
         /\ h.verifiedData.metadata.type \notin {"chipin", "ticket"})
            => (h.status = 400 /\ ~h.wrote)

\* both entry points answered 400 to a paid transaction of type raffle on
\* the reference of a pending donation
C13_Witness ==
    /\ \A h \in Handlers :
          /\ Answered(h)
          /\ Verified(h)
          /\ h.verifiedData.status = "success"
          /\ AmountMatches(h.verifiedData)
          /\ h.verifiedData.metadata.type = "raffle"
          /\ h.status = 400
    /\ webhook.reference = verify.reference
    /\ donations[verify.reference] # NoDonation
    /\ donations[verify.reference].status = "pending"

\* C14: a chipin webhook delivered again for a donation that is already
\* completed is answered 200 and performs no write: no step of it changes
\* the donation (status, metadata, and so updatedAt).
C14_RedeliveryWritesNothing ==
    [][webhook.statusAtStart = "completed"
          => /\ webhook' # webhook => UNCHANGED donations
             /\ ~webhook'.wrote
             /\ (webhook.pc = "findOne" /\ Answered(webhook') /\ ~webhook'.threw)
                    => webhook'.status = 200]_vars

\* the webhook alone completed the donation, and its second delivery was
\* answered 200 without writing
C14_Witness ==
    /\ verify.pc = "idle"
    /\ webhook.statusAtStart = "completed"
    /\ Answered(webhook) /\ VerifiedChipin(webhook)
    /\ webhook.status = 200
    /\ ~webhook.wrote
    /\ Completed(webhook.reference)

\* C15: an exception while the webhook is processed (a gateway or store call
\* that throws, after the signature check has passed) is answered 500 and
\* writes nothing, and the re-delivery of that webhook still completes the
\* pending donation; an answer without an exception is never 500.
C15_ProcessingExceptionIs500 ==
    /\ webhook.threw
         => /\ Answered(webhook) /\ webhook.status = 500 /\ ~webhook.wrote
            /\ ~WebhookRejects(ParseBody(webhook.rawBody), webhook.signature)
    /\ (Answered(webhook) /\ ~webhook.threw) => webhook.status \in {200, 400}
    /\ (/\ webhook.redelivery /\ Answered(webhook) /\ ~webhook.threw
        /\ VerifiedChipin(webhook) /\ webhook.statusAtStart = "pending")
         => (webhook.status = 200 /\ Completed(webhook.reference))

\* the webhook answered 500 was delivered again and this time completed the
\* donation
C15_Witness ==
    /\ webhook.redelivery
    /\ webhook.statusAtStart = "pending"
    /\ Answered(webhook) /\ webhook.status = 200
    /\ webhook.wrote
    /\ Completed(webhook.reference)

\* C16 (as claimed): on either entry point a completion for a reference that
\* no donation carries is answered 404, never with success, and creates or
\* modifies no donation.
C16_UnknownReferenceIsNotFound ==
    \A h \in Handlers :
        (/\ Answered(h) /\ ~h.threw
         /\ VerifiedChipin(h)
         /\ AmountMatches(h.verifiedData)
         /\ donations[h.reference] = NoDonation)
            => (h.status = 404 /\ ~h.wrote)

\* C17: verify-payment called without a reference is answered 400 before any
\* gateway call and writes nothing.
C17_MissingReferenceRejected ==
    (verify.pc # "idle" /\ verify.reference = NoReference)
        => /\ Answered(verify)
           /\ verify.status = 400
           /\ ~verify.called
           /\ ~verify.wrote

\* a verify-payment request without a reference was answered 400 while a
\* donation was pending
C17_Witness ==
    /\ Answered(verify)
    /\ verify.reference = NoReference
    /\ verify.status = 400
    /\ \E r \in Refs : donations[r] # NoDonation /\ donations[r].status = "pending"

\* C18: verify-payment answers 400 when the gateway's verifyTransaction
\* returns a status other than success and 500 when the gateway call fails,
\* and writes nothing in either case.
C18_VerifyPaymentGatewayFailure ==
    (Answered(verify) /\ verify.called)
        => /\ verify.verifiedData = NoReply
                => (verify.status = 500 /\ ~verify.wrote)
           /\ (verify.verifiedData # NoReply
               /\ verify.verifiedData.status # "success")
                => (verify.status = 400 /\ ~verify.wrote)

\* the gateway call of a verify-payment request for a pending donation
\* failed: the answer is 500 and the donation is still pending
C18_Witness ==
    /\ Answered(verify) /\ verify.called
    /\ verify.verifiedData = NoReply
    /\ verify.status = 500
    /\ verify.statusAtStart = "pending"
    /\ donations[verify.reference].status = "pending"

\* C19: verify-payment for a chipin reference whose donation is already
\* completed answers 200 with the existing completed donation and writes
\* nothing, unless a store call of it throws.
C19_VerifyPaymentAfterCompletion ==
    (/\ Answered(verify) /\ ~verify.threw
     /\ VerifiedChipin(verify) /\ AmountMatches(verify.verifiedData)
     /\ verify.statusAtStart = "completed")
        => /\ verify.status = 200
           /\ verify.data # NoDonation
           /\ verify.data.status = "completed"
           /\ verify.data.metadata.transactionId = verify.reference
           /\ ~verify.wrote

\* the webhook won: it completed the donation, verify-payment came after it
\* and returned the record the webhook wrote
C19_Witness ==
    /\ webhook.wrote /\ webhook.reference = verify.reference
    /\ verify.statusAtStart = "completed"
    /\ Answered(verify) /\ verify.status = 200
    /\ ~verify.wrote
    /\ verify.data = donations[verify.reference]
    /\ verify.data.metadata.gatewayResponse
            = webhook.verifiedData.gateway_response

\* C20: a step of the reconciliation job changes only donations that match
\* its filter (reference in the settlement page, gateway paystack, not payout
\* eligible, payoutStatus pending, status completed) and never a donation's
\* status: a pending donation named by a settlement stays as it is.
C20_JobTouchesOnlyMatches ==
    [][job' # job
          => \A r \in Refs :
                /\ donations'[r] # donations[r]
                     => /\ ReconcileFilter(donations[r], job.references, r)
                        /\ donations'[r].status = donations[r].status
                /\ (donations[r] # NoDonation /\ donations[r].status = "pending")
                     => donations'[r] = donations[r]]_vars

\* a settlement page names a pending and a completed donation: the job's
\* find has returned the completed one alone
C20_Witness ==
    \E r1, r2 \in Refs :
        /\ job.pc = "bulkWrite"
        /\ job.references = {r1, r2}
        /\ job.found = {r2}
        /\ donations[r1] # NoDonation
        /\ donations[r1].status = "pending"
        /\ ~donations[r1].isPayoutEligible

\* the elements of a sequence
Range(seq) == {seq[i] : i \in DOMAIN seq}

\* the run has ended with statusCode 200
RunSucceeded == job.pc = "done" /\ job.statusCode = 200

\* the step is one of the reconciliation job
JobStep == job' # job

\* C21: a reconciliation run that scans a settlement again leaves every
\* donation that is already payout-eligible as it is, settledAt included,
\* and its find matches no payout-eligible donation.
C21_RerunChangesNothing ==
    [][JobStep
          => /\ \A r \in Refs :
                   donations[r].isPayoutEligible => donations'[r] = donations[r]
             /\ job'.pc = "bulkWrite"
                   => \A r \in job'.found : ~donations[r].isPayoutEligible]_vars

\* a later run has listed again, on a later day, the transaction of a
\* donation that an earlier run marked payout-eligible
C21_Witness ==
    \E r \in Refs :
        /\ job.pc = "find"
        /\ r \in job.references
        /\ donations[r].isPayoutEligible
        /\ donations[r].settledAt < now

\* C22 (as claimed): a run that aborts after it has processed pages leaves
\* the checkpoint unchanged and reports 500, and the next run computes the
\* same from as the aborted run.
C22_AbortedRunRescansSameWindow ==
    [][/\ (JobStep /\ job'.pc = "done" /\ job'.statusCode = 500)
            => UNCHANGED lastRunAt
       /\ (/\ job.pc = "done" /\ job.statusCode = 500
           /\ job.requested # <<>>
           /\ job'.pc = "listSettlements")
            => job'.from = job.from]_vars

\* the checkpoint is lastRunAt, the run has asked for settlement pages 1..k,
\* all but the last of them full, has walked every settlement they listed
\* and every transaction page of those to a short or empty one
Exhausted(j) ==
    /\ j.requested # <<>>
    /\ \A i \in DOMAIN j.requested :
          /\ j.requested[i].page = i
          /\ i < Len(j.requested) => j.requested[i].length = SettlementsPerPage
    /\ j.requested[Len(j.requested)].length < SettlementsPerPage
    /\ \A i \in DOMAIN j.requested :
          \A k \in 1..j.requested[i].length :
              /\ (i - 1) * SettlementsPerPage + k \in DOMAIN j.scanned
              /\ \E n \in DOMAIN j.processed :
                    /\ j.processed[n].id
                          = j.scanned[(i - 1) * SettlementsPerPage + k]
                    /\ j.processed[n].length < TransactionsPerPage

\* C23: the checkpoint is written only by the last step of a run that has
\* exhausted all settlement pages and all their transaction pages without
\* error, and its value never decreases.
C23_CheckpointOnlyAfterFullScan ==
    [][/\ lastRunAt' >= lastRunAt
       /\ lastRunAt' # lastRunAt
            => /\ job.pc = "updateLastRun"
               /\ Exhausted(job)
               /\ job'.pc = "done" /\ job'.statusCode = 200
       /\ (JobStep /\ job'.pc = "done" /\ job'.statusCode = 200)
            => lastRunAt' = now']_vars

\* a successful run that started on a checkpoint or a day late has moved
\* the checkpoint past the start of its window
C23_Witness ==
    /\ RunSucceeded
    /\ Exhausted(job)
    /\ job.from # NoDate /\ job.from >= StartTime
    /\ lastRunAt > job.from
    /\ lastRunAt = now

\* C24 (as claimed): when a successful run has advanced the checkpoint to T,
\* every successful settlement the gateway holds from the run's from up to T
\* (and so outside the next run's window, which starts at T) has been
\* scanned by that run.
C24_WindowCovered ==
    RunSucceeded
        => \A id \in DOMAIN gateway :
              (/\ gateway[id].status = "success"
               /\ gateway[id].date >= job.from
               /\ gateway[id].date < lastRunAt)
                  => id \in Range(job.scanned)

\* the settlement pages the run has asked for, by their lengths
PageLengths(j) == [i \in DOMAIN j.requested |-> j.requested[i].length]

\* C25: the job asks for settlement pages 1, 2, 3, ... with status success,
\* its from and page size 50, and for no page after one that is empty or
\* shorter than 50; on pages of 50 and 30 settlements it asks for exactly
\* two pages and walks the 80 settlements; a run that finds no checkpoint
\* starts from now minus the lookback days.
C25_SettlementPagination ==
    /\ [](/\ \A i \in DOMAIN job.requested :
                /\ job.requested[i].page = i
                /\ job.requested[i].status = "success"
                /\ job.requested[i].from = job.from
                /\ job.requested[i].perPage = 50
                /\ job.requested[i].length <= 50
                /\ i < Len(job.requested) => job.requested[i].length = 50
          /\ job.pc = "listSettlements"
                => \A i \in DOMAIN job.requested : job.requested[i].length = 50
          /\ (Len(job.requested) >= 2 /\ job.requested[2].length = 30)
                => Len(job.requested) = 2
          /\ (RunSucceeded /\ PageLengths(job) = <<50, 30>>)
                => Len(job.scanned) = 80)
    /\ [][(job'.pc = "listSettlements" /\ job.pc \in {"idle", "done"}
            /\ lastRunAt = NoDate)
              => job'.from = now' - DEFAULT_LOOKBACK_DAYS]_vars

\* a first run without checkpoint got 50 and 30 settlements and ended well
C25_Witness ==
    /\ RunSucceeded
    /\ PageLengths(job) = <<50, 30>>
    /\ Len(job.scanned) = 80
    /\ job.from = StartTime - DEFAULT_LOOKBACK_DAYS
    /\ lastRunAt = StartTime

\* the references on the transaction pages of settlement id
ReferencesOf(id) == Range(gateway[id].txns) \ {NoRef}

\* C26: at the end of a successful run every settlement of the pages it got
\* has been walked, and every donation that is completed, of gateway
\* paystack and of payoutStatus pending and whose reference is on one of
\* their transaction pages, also on a page that follows one without valid
\* references, is payout-eligible with settledAt set; a donation is marked
\* only when it was not yet payout-eligible.
C26_RunCompleteness ==
    /\ [](RunSucceeded
            => /\ Exhausted(job)
               /\ \A n \in DOMAIN job.scanned :
                     \A r \in ReferencesOf(job.scanned[n]) :
                        (/\ donations[r].status = "completed"
                         /\ donations[r].metadata.gateway = "paystack"
                         /\ donations[r].payoutStatus = "pending")
                            => /\ donations[r].isPayoutEligible
                               /\ donations[r].settledAt # NoDate
                               /\ donations[r].settledAt >= StartTime)
    /\ [][\A r \in Refs :
             (JobStep /\ donations'[r] # donations[r])
                => /\ ~donations[r].isPayoutEligible
                   /\ donations'[r].isPayoutEligible
                   /\ donations'[r].settledAt = now']_vars

\* a run that got a transaction page without references and then the page
\* that names CHIP-IN_1 has ended with both donations payout-eligible
C26_Witness ==
    /\ RunSucceeded
    /\ job.totalReconciled = 2
    /\ \E n \in DOMAIN job.processed :
          /\ n > 1
          /\ job.processed[n].length = 1 /\ job.processed[n].page = 2
          /\ job.processed[n - 1].length = TransactionsPerPage
          /\ job.processed[n - 1].id = job.processed[n].id
          /\ ReferencesOf(job.processed[n].id) = {"CHIP-IN_1"}
    /\ \A r \in Refs : donations[r].isPayoutEligible

\* the transaction pages of settlement id the run has asked for, by their
\* positions in the record of the run
PagesOf(j, id) == {n \in DOMAIN j.processed : j.processed[n].id = id}

\* the run has asked for the transaction pages 1..k of settlement id, each
\* once and in order, all but the last full, the last short or empty, and
\* they add up to the transactions of the settlement
WalkedOnce(j, id) ==
    LET pages == PagesOf(j, id)
        k == Cardinality(pages)
    IN /\ k >= 1
       /\ \A n \in pages :
             /\ j.processed[n].page = Cardinality({m \in pages : m <= n})
             /\ j.processed[n].perPage = TransactionsPerPage
             /\ IF j.processed[n].page < k
                THEN j.processed[n].length = TransactionsPerPage
                ELSE /\ j.processed[n].length < TransactionsPerPage
                     /\ (k - 1) * TransactionsPerPage + j.processed[n].length
                          = Len(gateway[id].txns)

\* C27: a run goes on to its end whenever its awaited calls return; when the
\* last page of a settlement's transactions, or of the settlements, is
\* exactly full the job asks for one more page, gets an empty one and stops,
\* and it has asked for every page of a listing once, in order.
C27_PaginationTerminates ==
    /\ [](/\ \A n \in DOMAIN job.scanned :
                /\ WalkedOnce(job, job.scanned[n])
                /\ \A m \in DOMAIN job.scanned : job.scanned[m] = job.scanned[n] => m = n
                /\ Len(gateway[job.scanned[n]].txns) = TransactionsPerPage
                     => Cardinality(PagesOf(job, job.scanned[n])) = 2
          /\ (/\ job.pc = "updateLastRun" \/ RunSucceeded
              /\ job.requested # <<>>
              /\ \A i \in DOMAIN job.requested : job.requested[i].length \in {0, 50})
                 => job.requested[Len(job.requested)].length = 0)
    /\ (job.pc \notin {"idle", "done"}) ~> (job.pc = "done")

\* a run got exactly 50 settlements and then an empty page, the last
\* settlement exactly 100 transactions and then an empty page, and ended
C27_Witness ==
    /\ RunSucceeded
    /\ PageLengths(job) = <<50, 0>>
    /\ Len(job.scanned) = 50
    /\ Len(gateway[job.scanned[50]].txns) = 100
    /\ \E n \in DOMAIN job.processed :
          /\ n > 1
          /\ job.processed[n].id = job.scanned[50]
          /\ job.processed[n].page = 2 /\ job.processed[n].length = 0
          /\ job.processed[n - 1].id = job.scanned[50]
          /\ job.processed[n - 1].length = 100

\* a run of the job has scanned a successful settlement that includes the
\* reference
Scanned(reference) ==
    \E n \in DOMAIN job.scanned :
        /\ gateway[job.scanned[n]].status = "success"
        /\ reference \in ReferencesOf(job.scanned[n])

\* C28 (as claimed): under scheduled runs that succeed, a completed donation
\* whose reference is in a successful settlement the job scans is eventually
\* marked payout-eligible, whether it was completed before or after the
\* scan of its settlement.
C28_SettledEventuallyEligible ==
    \A r \in Refs :
        (Completed(r) /\ Scanned(r)) ~> donations[r].isPayoutEligible

\* C29: the fee of a donation is set when the donation is created, to
\* calculateFee(amount), and no later step of the webhook, of verify-payment
\* or of the reconciliation job changes its fee or its amount.
C29_FeeSetOnce ==
    [][\A r \in Refs :
          /\ donations[r] # NoDonation
               => /\ donations'[r] # NoDonation
                  /\ donations'[r].fee = donations[r].fee
                  /\ donations'[r].amount = donations[r].amount
          /\ (donations[r] = NoDonation /\ donations'[r] # NoDonation)
               => /\ donations'[r].fee = calculateFee(donations'[r].amount)
                  /\ donations'[r].fee = 150]_vars

\* a donation of 5000 that the webhook completed and the job marked still
\* has the fee 150
C29_Witness ==
    \E r \in Refs :
        /\ Completed(r)
        /\ webhook.reference = r /\ webhook.wrote
        /\ donations[r].isPayoutEligible
        /\ donations[r].settledAt # NoDate
        /\ donations[r].amount = 5000
        /\ donations[r].fee = 150

\* C30: for a positive amount the fee is amount * 0.01 + 100, so never
\* negative, and 150 for 5000 (on the amounts that are multiples of 100).
C30_FeeOfAmount ==
    \A r \in Refs :
        donations[r] # NoDonation
            => /\ donations[r].amount > 0
               /\ donations[r].fee * 100 = donations[r].amount + 100 * 100
               /\ donations[r].fee >= 0
               /\ donations[r].amount = 5000 => donations[r].fee = 150

\* chip-ins of 5000 and of 100 got the fees 150 and 101
C30_Witness ==
    \E r1, r2 \in Refs :
        /\ donations[r1] # NoDonation /\ donations[r2] # NoDonation
        /\ donations[r1].amount = 5000 /\ donations[r1].fee = 150
        /\ donations[r2].amount = 100 /\ donations[r2].fee = 101

\* C31: chip-in creates a donation only when the event exists, is private,
\* has chip-in details and the amount is positive; the donation it creates
\* is pending, of payoutStatus pending, not payout-eligible and under a
\* reference that no donation had; a request answered 404 (no event) or 400
\* (event takes no donations, amount not positive) creates none, and those
\* are the answers of these cases.
C31_ChipinCreatesOnlyWhenAccepted ==
    /\ [][\A r \in Refs :
            (donations[r] = NoDonation /\ donations'[r] # NoDonation)
               => /\ chipin'.reference = r
                  /\ chipin'.event # NoEvent
                  /\ chipin'.event.isPrivate
                  /\ chipin'.event.chipInDetails # NoChipInDetails
                  /\ chipin'.amount > 0
                  /\ chipin'.status \in {201, 500}
                  /\ donations'[r].amount = chipin'.amount
                  /\ donations'[r].status = "pending"
                  /\ donations'[r].payoutStatus = "pending"
                  /\ donations'[r].isPayoutEligible = FALSE
                  /\ donations'[r].settledAt = NoDate]_vars
    /\ [][(chipin' # chipin /\ chipin'.status \in {400, 404})
             => UNCHANGED donations]_vars
    /\ [](chipin.pc = "done"
            => /\ chipin.event = NoEvent => chipin.status = 404
               /\ (/\ chipin.event # NoEvent
                   /\ \/ ~chipin.event.isPrivate
                      \/ chipin.event.chipInDetails = NoChipInDetails
                      \/ chipin.amount <= 0)
                    => chipin.status = 400)

\* one chip-in of 5000 against a private event with chip-in details was
\* answered 201 and left a pending donation, and a later one of amount 0
\* against an event that takes any amount was answered 400 and left none
C31_Witness ==
    \E r1, r2 \in Refs :
        /\ r1 # r2
        /\ donations[r1] # NoDonation
        /\ donations[r1].status = "pending" /\ donations[r1].amount = 5000
        /\ donations[r2] = NoDonation
        /\ chipin.pc = "done" /\ chipin.reference = r2
        /\ chipin.event = OpenEvent /\ chipin.amount = 0
        /\ chipin.status = 400

Matching(r) ==
    /\ donations[r] # NoDonation
    /\ donations[r].status = "completed"
    /\ donations[r].metadata.gateway = "paystack"
    /\ donations[r].payoutStatus = "pending"

\* what one uninterrupted run from `from` leaves: every matching donation of
\* a successful settlement dated from `from` on is payout-eligible
ReconciledSince(from) ==
    \A id \in DOMAIN gateway :
        (gateway[id].status = "success" /\ gateway[id].date >= from)
            => \A r \in ReferencesOf(id) :
                  Matching(r) => /\ donations[r].isPayoutEligible
                                 /\ donations[r].settledAt # NoDate

\* C33 (as claimed): the donations a run has marked stay marked when the run
\* aborts and in later runs; after a run from `from` has aborted with pages
\* written, every later run that succeeds ends in the donation state of one
\* uninterrupted run from `from`.
C33_AbortThenRerunCompletes ==
    /\ [][\A r \in Refs :
            donations[r].isPayoutEligible
               => /\ donations'[r].isPayoutEligible
                  /\ donations'[r].settledAt = donations[r].settledAt]_vars
    /\ \A from \in 0..MaxTime :
          []((/\ job.pc = "done" /\ job.statusCode = 500
              /\ job.totalReconciled > 0
              /\ job.from = from)
                => [](RunSucceeded => ReconciledSince(from)))

\* the step is the answer of a handler's findOneAndUpdate
WebhookWrites ==
    webhook.pc = "findOneAndUpdate" /\ webhook'.pc = "done" /\ ~webhook'.threw
VerifyWrites ==
    verify.pc = "findOneAndUpdate" /\ verify'.pc = "done" /\ ~verify'.threw

\* C34: a completion write of the webhook or of verify-payment changes the
\* status and the metadata of the donation of its reference and nothing
\* else: isPayoutEligible, settledAt, payoutStatus, amount and fee of that
\* donation stay, no donation appears or disappears and every other donation
\* stays as it is, also when the job has marked the donation in between.
C34_CompletionWriteFrame ==
    [][\A r \in Refs :
          /\ (WebhookWrites /\ r = webhook.reference /\ donations[r] # NoDonation)
                => /\ donations'[r].status = "completed"
                   /\ donations'[r] =
                        [donations[r] EXCEPT
                            !.status = donations'[r].status,
                            !.metadata = donations'[r].metadata]
          /\ (VerifyWrites /\ r = verify.reference /\ donations[r] # NoDonation)
                => /\ donations'[r].status = "completed"
                   /\ donations'[r] =
                        [donations[r] EXCEPT
                            !.status = donations'[r].status,
                            !.metadata = donations'[r].metadata]
          /\ (/\ WebhookWrites \/ VerifyWrites
              /\ \/ donations[r] = NoDonation
                 \/ ~(WebhookWrites /\ r = webhook.reference)
                    /\ ~(VerifyWrites /\ r = verify.reference))
                => donations'[r] = donations[r]]_vars

\* verify-payment has written its completion to a donation that the job had
\* marked payout-eligible after the webhook completed it, and the document
\* it got back is still payout-eligible with its settledAt
C34_Witness ==
    /\ verify.pc = "done" /\ verify.wrote
    /\ verify.statusAtStart = "pending"
    /\ verify.data # NoDonation
    /\ verify.data.isPayoutEligible
    /\ verify.data.settledAt # NoDate
    /\ \E r \in Refs \ {verify.reference} : donations[r] # NoDonation

\* C35: a payout-eligible donation has its settledAt, a donation that is
\* not payout-eligible has none, and a settledAt once set is the same after
\* every step of a later reconciliation run.
C35_SettledAtWithEligibility ==
    /\ [](\A r \in Refs :
            donations[r] # NoDonation
               => (donations[r].isPayoutEligible <=> donations[r].settledAt # NoDate))
    /\ [][\A r \in Refs :
            (donations[r] # NoDonation /\ donations[r].settledAt # NoDate)
               => /\ donations'[r] # NoDonation
                  /\ donations'[r].settledAt = donations[r].settledAt]_vars

\* a run of a later day has ended well, one donation marked by an earlier
\* run keeps its earlier settledAt, and a pending one has none
C35_Witness ==
    \E r1, r2 \in Refs :
        /\ RunSucceeded
        /\ job.from # NoDate /\ job.from > FirstFrom
        /\ donations[r1].isPayoutEligible
        /\ donations[r1].settledAt # NoDate
        /\ donations[r1].settledAt < lastRunAt
        /\ donations[r2].status = "pending"
        /\ ~donations[r2].isPayoutEligible
        /\ donations[r2].settledAt = NoDate

\* C36: for a donation chip-in created, the amount in kobo sent to the gateway
\* at initialization is the expected amount verify-payment computes from the
\* metadata the gateway returns unchanged, and is (amount + fee) * 100 of the
\* stored donation: 515000 for a chip-in of 5000.
C36_ChargedAmountRoundTrip ==
    chipin.initialize # NoReply
        => /\ AmountMatches(GatewayEcho(chipin.initialize))
           /\ donations[chipin.reference] # NoDonation
           /\ chipin.initialize.amount =
                (donations[chipin.reference].amount
                    + donations[chipin.reference].fee) * 100
           /\ chipin.amount = 5000 => chipin.initialize.amount = 515000

\* verify-payment got back the amount and metadata of a chip-in of 5000,
\* found the amount to match and completed the donation
C36_Witness ==
    /\ chipin.initialize # NoReply
    /\ chipin.initialize.amount = 515000
    /\ verify.pc = "done" /\ verify.status = 200 /\ verify.wrote
    /\ verify.reference = chipin.reference
    /\ verify.verifiedData = GatewayEcho(chipin.initialize)
    /\ donations[chipin.reference].status = "completed"

\* the step is the decision of call c on the document it found, and the end
\* of a call that compared a wrong token
Decides(c) ==
    verifyToken[c].pc = "findOne" /\ verifyToken'[c].pc \in {"save", "deleteOne"}
SavesAttempt(c) ==
    verifyToken[c].pc = "save" /\ verifyToken'[c].pc = "done"

\* C37 (as claimed): a verification with the right token deletes the token
\* document, and no second verification succeeds on the same document; each
\* verification with a wrong token is rejected and leaves the attempts of
\* the document, if it is still stored, one higher; a verification that finds the attempts at 5 or
\* the token expired is rejected, whatever token it carries.
C37_TokenSingleUseAttemptLimited ==
    /\ [](\A c1, c2 \in Callers :
            (/\ c1 # c2
             /\ verifyToken[c1].result = "resolved"
             /\ verifyToken[c2].result = "resolved")
                => verifyToken[c1].tokenDoc.id # verifyToken[c2].tokenDoc.id)
    /\ [][\A c \in Callers :
            /\ verifyToken'[c].result = "resolved" /\ verifyToken[c].result # "resolved"
                 => /\ verifyToken[c].hashedToken = verifyToken[c].tokenDoc.token
                    /\ \/ userToken' = NoToken
                       \/ userToken'.id # verifyToken[c].tokenDoc.id
            /\ SavesAttempt(c)
                 => /\ verifyToken'[c].result = "rejected"
                    /\ (/\ userToken # NoToken
                        /\ userToken.id = verifyToken[c].tokenDoc.id)
                          => /\ userToken' # NoToken
                             /\ userToken'.id = userToken.id
                             /\ userToken'.attempts = userToken.attempts + 1
            /\ Decides(c)
                 => /\ userToken # NoToken
                    /\ userToken.attempts < 5
                    /\ userToken.expiresAt >= now]_vars

====
